---- MODULE Spec2Model ----
(***************************************************************************)
(* Stress-tested cash-on-cash (sCoC) metric: a model of scoc_metric.py.    *)
(*                                                                         *)
(* The program is a calculator: annual_pni (amortisation helper) and       *)
(* compute_scoc (a columnar transform of a table of listings).  Python     *)
(* floats are modelled as exact rationals extended with +inf, -inf and     *)
(* nan; rounding error of IEEE doubles is outside the model.  A rational   *)
(* is a pair of arbitrary-precision integers, because (1 + r) ** n with    *)
(* n = 360 does not fit a machine word.                                    *)
(***************************************************************************)
EXTENDS Integers, Sequences, FiniteSets, TLC

VARIABLES df, defaults, result, pni_call, pni_ret

vars == <<df, defaults, result, pni_call, pni_ret>>

-----------------------------------------------------------------------------
(* Arbitrary-precision naturals: little-endian sequences of base-1000      *)
(* limbs without leading zero limbs; <<>> is 0.                            *)

Max(p, q) == IF p > q THEN p ELSE q
Min(p, q) == IF p < q THEN p ELSE q

\* one pass of carries (and borrows: \div floors, % is non-negative)
CarryStep(v, n) ==
  SubSeq([i \in 1..(n + 1) |->
            (IF i <= n THEN v[i] % 1000 ELSE 0)
            + (IF i > 1 THEN v[i - 1] \div 1000 ELSE 0)], 1, n + 1)

RECURSIVE Carry(_)
\* carry until every limb is in 0..999; the value of v must be non-negative
Carry(v) ==
  IF \A i \in 1..Len(v) : v[i] >= 0 /\ v[i] < 1000
  THEN v
  ELSE Carry(CarryStep(v, Len(v)))

\* the index of the highest non-zero limb among the first n, or 0
TopLimb(v, n) ==
  IF \A i \in 1..n : v[i] = 0 THEN 0
  ELSE IF v[n] # 0 THEN n
  ELSE CHOOSE i \in 1..n : v[i] # 0 /\ \A j \in (i + 1)..n : v[j] = 0

Strip(c) == SubSeq(c, 1, TopLimb(c, Len(c)))

Norm(v) == Strip(Carry(v))

NFromInt(i) == Norm(<<i>>)

Limb(a, i) == IF i <= Len(a) THEN a[i] ELSE 0

NAdd(a, b) ==
  Norm(SubSeq([i \in 1..Max(Len(a), Len(b)) |-> Limb(a, i) + Limb(b, i)],
              1, Max(Len(a), Len(b))))

RECURSIVE NCmpFrom(_, _, _, _)
\* compares limbs lo..hi of a and b, the higher limbs first
NCmpFrom(a, b, lo, hi) ==
  IF lo = hi
  THEN (IF a[lo] > b[lo] THEN 1 ELSE IF a[lo] < b[lo] THEN -1 ELSE 0)
  ELSE IF SubSeq(a, (lo + hi) \div 2 + 1, hi) = SubSeq(b, (lo + hi) \div 2 + 1, hi)
  THEN NCmpFrom(a, b, lo, (lo + hi) \div 2)
  ELSE NCmpFrom(a, b, (lo + hi) \div 2 + 1, hi)

\* -1, 0, 1 as a < b, a = b, a > b
NCmp(a, b) ==
  IF Len(a) > Len(b) THEN 1
  ELSE IF Len(a) < Len(b) THEN -1
  ELSE IF a = b THEN 0
  ELSE NCmpFrom(a, b, 1, Len(a))

\* a - b for a >= b
NSub(a, b) == Norm(SubSeq([i \in 1..Len(a) |-> a[i] - Limb(b, i)], 1, Len(a)))

RECURSIVE Col(_, _, _, _, _)
\* sum of a[i] * b[k - i + 1] for i in lo..hi
Col(a, b, k, lo, hi) ==
  IF lo > hi THEN 0
  ELSE IF lo = hi THEN a[lo] * b[k - lo + 1]
  ELSE Col(a, b, k, lo, (lo + hi) \div 2) + Col(a, b, k, (lo + hi) \div 2 + 1, hi)

NMul(a, b) ==
  IF Len(a) = 0 \/ Len(b) = 0 THEN <<>>
  ELSE Norm(SubSeq([k \in 1..(Len(a) + Len(b) - 1) |->
                      Col(a, b, k, Max(1, k - Len(b) + 1), Min(k, Len(a)))],
                   1, Len(a) + Len(b) - 1))

NSquare(h) == NMul(h, h)

RECURSIVE NPow(_, _)
NPow(a, n) ==
  IF n = 0 THEN <<1>>
  ELSE IF n % 2 = 0 THEN NSquare(NPow(a, n \div 2))
  ELSE NMul(NPow(a, n - 1), a)

-----------------------------------------------------------------------------
(* Floats.  [k |-> "fin", sg, n, d] is the number sg * n / d, with sg the  *)
(* IEEE sign bit (1 or -1, kept on zero as well), n and d naturals, d > 0. *)
(* [k |-> "inf", sg] is an infinity, [k |-> "nan"] is not-a-number.        *)
(* Decimal literals of the source (0.065, 1.10) are the exact decimals.    *)

RECURSIVE Gcd(_, _)
Gcd(i, j) == IF j = 0 THEN i ELSE Gcd(j, i % j)

\* the machine integer of a natural of at most three limbs
NToInt(a) == Limb(a, 1) + 1000 * Limb(a, 2) + 1000000 * Limb(a, 3)

\* i / j in lowest terms, for machine integers
Lowest(sg, i, j, g) ==
  [k |-> "fin", sg |-> sg, n |-> NFromInt(i \div g), d |-> NFromInt(j \div g)]

\* fractions whose terms fit a machine word are kept in lowest terms
Fin(sg, n, d) ==
  IF Len(n) <= 3 /\ Len(d) <= 3 /\ Limb(n, 3) < 2000 /\ Limb(d, 3) < 2000
  THEN Lowest(sg, NToInt(n), NToInt(d), Gcd(NToInt(n), NToInt(d)))
  ELSE [k |-> "fin", sg |-> sg, n |-> n, d |-> d]

Inf(sg) == [k |-> "inf", sg |-> sg]
NaN == [k |-> "nan"]

\* the float i / j for machine integers i and j > 0
FRat(i, j) ==
  Lowest(IF i < 0 THEN -1 ELSE 1, IF i < 0 THEN -i ELSE i, j,
         Gcd(IF i < 0 THEN -i ELSE i, j))
FInt(i) ==
  [k |-> "fin", sg |-> IF i < 0 THEN -1 ELSE 1,
   n |-> NFromInt(IF i < 0 THEN -i ELSE i), d |-> <<1>>]

IsZero(a) == a.k = "fin" /\ Len(a.n) = 0

FNeg(a) == IF a.k = "nan" THEN a ELSE [a EXCEPT !.sg = -a.sg]

\* sa * x / d + sb * y / d, where c compares x with y
AddSigned(sa, x, sb, y, d, c) ==
  IF sa = sb THEN Fin(sa, NAdd(x, y), d)
  ELSE IF c = 0 THEN Fin(1, <<>>, d)
  ELSE Fin(IF c > 0 THEN sa ELSE sb, IF c > 0 THEN NSub(x, y) ELSE NSub(y, x), d)

AddAligned(sa, x, sb, y, d) == AddSigned(sa, x, sb, y, d, NCmp(x, y))

FAdd(a, b) ==
  IF a.k = "nan" \/ b.k = "nan" THEN NaN
  ELSE IF a.k = "inf" THEN (IF b.k = "inf" /\ b.sg # a.sg THEN NaN ELSE a)
  ELSE IF b.k = "inf" THEN b
  ELSE IF a.d = b.d THEN AddAligned(a.sg, a.n, b.sg, b.n, a.d)
  ELSE AddAligned(a.sg, NMul(a.n, b.d), b.sg, NMul(b.n, a.d), NMul(a.d, b.d))

FSub(a, b) == FAdd(a, FNeg(b))

FMul(a, b) ==
  IF a.k = "nan" \/ b.k = "nan" THEN NaN
  ELSE IF a.k = "inf" \/ b.k = "inf"
       THEN (IF IsZero(a) \/ IsZero(b) THEN NaN ELSE Inf(a.sg * b.sg))
  ELSE Fin(a.sg * b.sg, NMul(a.n, b.n), NMul(a.d, b.d))

\* IEEE division, as numpy and pandas perform it: x / 0 is an infinity or nan
FDiv(a, b) ==
  IF a.k = "nan" \/ b.k = "nan" THEN NaN
  ELSE IF a.k = "inf" THEN (IF b.k = "inf" THEN NaN ELSE Inf(a.sg * b.sg))
  ELSE IF b.k = "inf" THEN [k |-> "fin", sg |-> a.sg * b.sg, n |-> <<>>, d |-> <<1>>]
  ELSE IF IsZero(b) THEN (IF IsZero(a) THEN NaN ELSE Inf(a.sg * b.sg))
  ELSE Fin(a.sg * b.sg, NMul(a.n, b.d), NMul(a.d, b.n))

\* the sign of a float that is not nan: -1, 0 or 1
Sign(a) == IF IsZero(a) THEN 0 ELSE a.sg

\* -1, 0, 1 as a < b, a = b, a > b, for a and b not nan
FCmp(a, b) ==
  IF Sign(a) # Sign(b) THEN (IF Sign(a) > Sign(b) THEN 1 ELSE -1)
  ELSE IF Sign(a) = 0 THEN 0
  ELSE IF a.k = "inf" THEN (IF b.k = "inf" THEN 0 ELSE a.sg)
  ELSE IF b.k = "inf" THEN -a.sg
  ELSE a.sg * NCmp(NMul(a.n, b.d), NMul(b.n, a.d))

\* comparisons with nan are False
FLe(a, b) == a.k # "nan" /\ b.k # "nan" /\ FCmp(a, b) <= 0
FGe(a, b) == a.k # "nan" /\ b.k # "nan" /\ FCmp(a, b) >= 0
FLt(a, b) == a.k # "nan" /\ b.k # "nan" /\ FCmp(a, b) < 0
FEq(a, b) == a.k # "nan" /\ b.k # "nan" /\ FCmp(a, b) = 0

\* x ** n for an integer n and x > 0, infinite or nan (nan ** 0 is 1.0)
FPow(x, n) ==
  IF n = 0 THEN FInt(1)
  ELSE IF x.k = "nan" THEN NaN
  ELSE IF x.k = "inf" THEN (IF n > 0 THEN x ELSE FInt(0))
  ELSE IF n > 0 THEN [k |-> "fin", sg |-> 1, n |-> NPow(x.n, n), d |-> NPow(x.d, n)]
  ELSE [k |-> "fin", sg |-> 1, n |-> NPow(x.d, -n), d |-> NPow(x.n, -n)]

\* a raised exception, in place of a value
Err(e) == [k |-> "err", e |-> e]
IsErr(a) == a.k = "err"

\* a scalar division inside annual_pni.  A table with a string column
\* (address) is walked by df.apply(axis=1) as object rows holding Python
\* floats, whose division by zero raises; an all-numeric table is walked as
\* float64 rows holding numpy scalars, whose division by zero is inf or nan.
ScalarDiv(a, b, scalars) ==
  IF scalars = "python" /\ IsZero(b) THEN Err("ZeroDivisionError") ELSE FDiv(a, b)

-----------------------------------------------------------------------------
(* Amortisation helper                                                     *)

\* return payment * 12
annualise(payment) == IF IsErr(payment) THEN payment ELSE FMul(payment, FInt(12))

\* payment = loan_amount * (r * (1 + r)**n) / ((1 + r)**n - 1), with
\* growth the value of (1 + r)**n
annuity(loan_amount, r, growth, scalars) ==
  ScalarDiv(FMul(loan_amount, FMul(r, growth)), FSub(growth, FInt(1)), scalars)

\* annual_pni with the fallback taken for negative rates only
annual_pni_strict(loan_amount, annual_rate, years, scalars) ==
  IF FLt(annual_rate, FInt(0))
  THEN ScalarDiv(loan_amount, FInt(years), scalars)
  ELSE annualise(annuity(loan_amount, FDiv(annual_rate, FInt(12)),
                         FPow(FAdd(FInt(1), FDiv(annual_rate, FInt(12))), years * 12),
                         scalars))

\* annual_pni with the fallback repaying the whole loan in one year
annual_pni_flat(loan_amount, annual_rate, years, scalars) ==
  IF FLe(annual_rate, FInt(0))
  THEN loan_amount
  ELSE annualise(annuity(loan_amount, FDiv(annual_rate, FInt(12)),
                         FPow(FAdd(FInt(1), FDiv(annual_rate, FInt(12))), years * 12),
                         scalars))

annual_pni(loan_amount, annual_rate, years, scalars) ==
  IF FLe(annual_rate, FInt(0))
  THEN ScalarDiv(loan_amount, FInt(years), scalars)
  ELSE annualise(annuity(loan_amount, FDiv(annual_rate, FInt(12)),
                         FPow(FAdd(FInt(1), FDiv(annual_rate, FInt(12))), years * 12),
                         scalars))

-----------------------------------------------------------------------------
(* Tables.  A table is [cols, rows]: the set of its column names and the   *)
(* sequence of its rows, each row a record of cells.  A cell is a number   *)
(* n / d, a missing value (NaN / None), or text that is not a number.  A   *)
(* row's cell under a column the table does not have is never read.        *)

Num(i, j) == [k |-> "num", n |-> i, d |-> j]
Missing == [k |-> "nan"]
Text == [k |-> "str"]

\* a sequence of n values, evaluated once
Series(n, F(_)) == SubSeq([i \in 1..n |-> F(i)], 1, n)

\* df[col]
column(tbl, col) == Series(Len(tbl.rows), LAMBDA i : tbl.rows[i][col])

\* if col not in df.columns: df[col] = v
column_or(tbl, col, v) ==
  IF col \in tbl.cols THEN column(tbl, col) ELSE Series(Len(tbl.rows), LAMBDA i : v)

\* Series.fillna(v)
fillna(col, v) == Series(Len(col), LAMBDA i : IF col[i].k = "nan" THEN v ELSE col[i])

\* Series.astype(float) raises on text; a missing value stays NaN
float_raises(col) == \E i \in 1..Len(col) : col[i].k = "str"
ToFloat(c) == IF c.k = "nan" THEN NaN ELSE FRat(c.n, c.d)
astype_float(col) == Series(Len(col), LAMBDA i : ToFloat(col[i]))

\* Series.astype(int) raises on text and on a missing value, and truncates
int_raises(col) == \E i \in 1..Len(col) : col[i].k \in {"str", "nan"}
ToInt(c) == IF c.n >= 0 THEN c.n \div c.d ELSE -((-c.n) \div c.d)
astype_int(col) == Series(Len(col), LAMBDA i : ToInt(col[i]))

\* the exceptions of lines 47-67, in the order the code meets them
coerce_error(tbl, conf) ==
  IF "price" \notin tbl.cols THEN "KeyError"
  ELSE IF float_raises(column(tbl, "price")) THEN "ValueError"
  ELSE IF "weekly_rent" \notin tbl.cols THEN "KeyError"
  ELSE IF float_raises(column(tbl, "weekly_rent")) THEN "ValueError"
  ELSE IF \E c \in {"council_rates", "strata_body_corp", "insurance",
                    "land_tax", "other_costs"} :
            c \in tbl.cols /\ float_raises(column(tbl, c)) THEN "ValueError"
  ELSE IF float_raises(column_or(tbl, "current_interest_rate", Num(65, 1000)))
       THEN "ValueError"
  ELSE IF float_raises(column_or(tbl, "lvr", conf.lvr)) THEN "ValueError"
  ELSE IF int_raises(column_or(tbl, "loan_term_years", conf.loan_term_years))
       THEN "ValueError"
  ELSE "none"

\* label with the WATCH test ahead of the BUY test
label_watch_first(row) ==
  IF FGe(row.sCoC_percent, FInt(0)) /\ FGe(row.DSCR_stress, FInt(1))
  THEN "WATCH (thin buffer)"
  ELSE IF FGe(row.sCoC_percent, FInt(2)) /\ FGe(row.DSCR_stress, FRat(110, 100))
  THEN "BUY (resilient)"
  ELSE "AVOID (negative under stress)"

\* label(row)
label(row) ==
  IF FGe(row.sCoC_percent, FInt(2)) /\ FGe(row.DSCR_stress, FRat(110, 100))
  THEN "BUY (resilient)"
  ELSE IF FGe(row.sCoC_percent, FInt(0)) /\ FGe(row.DSCR_stress, FInt(1))
  THEN "WATCH (thin buffer)"
  ELSE "AVOID (negative under stress)"

\* an optional cost column: absent is 0.0, a missing cell is 0.0
cost_column(tbl, col) == astype_float(fillna(column_or(tbl, col, Num(0, 1)), Num(0, 1)))

\* lines 47-67: the input columns, coerced, one record per row
coerced(tbl, conf) ==
  Series(Len(tbl.rows), LAMBDA i :
    [price |-> astype_float(column(tbl, "price"))[i],
     weekly_rent |-> astype_float(column(tbl, "weekly_rent"))[i],
     council_rates |-> cost_column(tbl, "council_rates")[i],
     strata_body_corp |-> cost_column(tbl, "strata_body_corp")[i],
     insurance |-> cost_column(tbl, "insurance")[i],
     land_tax |-> cost_column(tbl, "land_tax")[i],
     other_costs |-> cost_column(tbl, "other_costs")[i],
     current_interest_rate |->
       astype_float(column_or(tbl, "current_interest_rate", Num(65, 1000)))[i],
     lvr |-> astype_float(column_or(tbl, "lvr", conf.lvr))[i],
     loan_term_years |->
       astype_int(column_or(tbl, "loan_term_years", conf.loan_term_years))[i]])

\* df[name] = G(row), element by element
with_column(frame, name, G(_)) ==
  Series(Len(frame), LAMBDA i : frame[i] @@ (name :> G(frame[i])))

\* lines 70-73
rent_columns(frame, conf) ==
  with_column(with_column(with_column(with_column(frame,
    "annual_rent", LAMBDA r : FMul(r.weekly_rent, FInt(52))),
    "vacancy_loss", LAMBDA r : FMul(r.weekly_rent, ToFloat(conf.vacancy_weeks))),
    "maintenance", LAMBDA r : FMul(ToFloat(conf.maintenance_rate), r.annual_rent)),
    "capex_reserve", LAMBDA r : FMul(ToFloat(conf.capex_rate), r.price))

\* lines 75-85
cost_columns(frame) ==
  with_column(with_column(frame,
    "operating_costs", LAMBDA r :
      FAdd(FAdd(FAdd(FAdd(FAdd(FAdd(r.council_rates, r.strata_body_corp),
           r.insurance), r.land_tax), r.other_costs), r.maintenance),
           r.capex_reserve)),
    "NOI", LAMBDA r : FSub(FSub(r.annual_rent, r.vacancy_loss), r.operating_costs))

\* financing_columns with equity the down payment alone
financing_columns_deposit(frame, conf, scalars) ==
  with_column(with_column(with_column(with_column(frame,
    "loan_amount", LAMBDA r : FMul(r.price, r.lvr)),
    "equity", LAMBDA r : FMul(r.price, FSub(FInt(1), r.lvr))),
    "stress_rate", LAMBDA r :
      FAdd(r.current_interest_rate, FDiv(ToFloat(conf.stress_bps), FInt(10000)))),
    "annual_debt_service_stress", LAMBDA r :
      annual_pni(r.loan_amount, r.stress_rate, r.loan_term_years, scalars))

\* lines 88-95; annual_debt_service_stress is a float or the exception
\* annual_pni raised
financing_columns(frame, conf, scalars) ==
  with_column(with_column(with_column(with_column(frame,
    "loan_amount", LAMBDA r : FMul(r.price, r.lvr)),
    "equity", LAMBDA r :
      FAdd(FMul(r.price, FSub(FInt(1), r.lvr)),
           FMul(r.price, ToFloat(conf.purchase_cost_rate)))),
    "stress_rate", LAMBDA r :
      FAdd(r.current_interest_rate, FDiv(ToFloat(conf.stress_bps), FInt(10000)))),
    "annual_debt_service_stress", LAMBDA r :
      annual_pni(r.loan_amount, r.stress_rate, r.loan_term_years, scalars))

\* metric_columns with the coverage ratio upside down
metric_columns_inverted(frame) ==
  with_column(with_column(with_column(with_column(with_column(frame,
    "cashflow_after_debt_stress", LAMBDA r : FSub(r.NOI, r.annual_debt_service_stress)),
    "sCoC_percent", LAMBDA r :
      FMul(FInt(100), FDiv(r.cashflow_after_debt_stress, r.equity))),
    "gross_yield_percent", LAMBDA r : FMul(FInt(100), FDiv(r.annual_rent, r.price))),
    "net_yield_percent", LAMBDA r : FMul(FInt(100), FDiv(r.NOI, r.price))),
    "DSCR_stress", LAMBDA r : FDiv(r.annual_debt_service_stress, r.NOI))

\* lines 97-103
metric_columns(frame) ==
  with_column(with_column(with_column(with_column(with_column(frame,
    "cashflow_after_debt_stress", LAMBDA r : FSub(r.NOI, r.annual_debt_service_stress)),
    "sCoC_percent", LAMBDA r :
      FMul(FInt(100), FDiv(r.cashflow_after_debt_stress, r.equity))),
    "gross_yield_percent", LAMBDA r : FMul(FInt(100), FDiv(r.annual_rent, r.price))),
    "net_yield_percent", LAMBDA r : FMul(FInt(100), FDiv(r.NOI, r.price))),
    "DSCR_stress", LAMBDA r : FDiv(r.NOI, r.annual_debt_service_stress))

\* line 112
signal_column(frame) == with_column(frame, "signal", label)

\* the frame after the df.apply of lines 92-95, which raises what
\* annual_pni raises for a row
after_apply(frame) ==
  IF \E i \in 1..Len(frame) : IsErr(frame[i].annual_debt_service_stress)
  THEN [ok |-> FALSE,
        error |-> frame[CHOOSE i \in 1..Len(frame) :
                          IsErr(frame[i].annual_debt_service_stress)
                       ].annual_debt_service_stress.e]
  ELSE [ok |-> TRUE, rows |-> signal_column(metric_columns(frame))]

\* lines 44-112: the frame with every derived column, or the exception
compute_frame(tbl, conf) ==
  IF coerce_error(tbl, conf) # "none"
  THEN [ok |-> FALSE, error |-> coerce_error(tbl, conf)]
  ELSE after_apply(
         financing_columns(cost_columns(rent_columns(coerced(tbl, conf), conf)),
                           conf, IF "address" \in tbl.cols THEN "python" ELSE "numpy"))

\* tidy over the rows that have a cash-on-cash return
tidy_dropna(frame) ==
  Series(Len(SelectSeq(frame, LAMBDA r : r.sCoC_percent.k # "nan")), LAMBDA i :
    [c \in {"price", "weekly_rent", "gross_yield_percent", "net_yield_percent",
            "NOI", "loan_amount", "equity", "stress_rate",
            "annual_debt_service_stress", "cashflow_after_debt_stress",
            "sCoC_percent", "DSCR_stress", "signal"} |->
       SelectSeq(frame, LAMBDA r : r.sCoC_percent.k # "nan")[i][c]])

\* lines 114-123: the columns of `order`, one output row per frame row
tidy(frame) ==
  Series(Len(frame), LAMBDA i :
    [c \in {"price", "weekly_rent", "gross_yield_percent", "net_yield_percent",
            "NOI", "loan_amount", "equity", "stress_rate",
            "annual_debt_service_stress", "cashflow_after_debt_stress",
            "sCoC_percent", "DSCR_stress", "signal"} |-> frame[i][c]])

\* return df[[c for c in order if c in df.columns]]
returned(f) == IF f.ok THEN [ok |-> TRUE, rows |-> tidy(f.rows)] ELSE f

compute_scoc(tbl, conf) == returned(compute_frame(tbl, conf))

-----------------------------------------------------------------------------
(* Inputs: configurations and tables.                                      *)

DEFAULTS ==
  [vacancy_weeks |-> Num(4, 1), maintenance_rate |-> Num(5, 100),
   capex_rate |-> Num(1, 100), purchase_cost_rate |-> Num(5, 100),
   lvr |-> Num(80, 100), loan_term_years |-> Num(30, 1),
   stress_bps |-> Num(200, 1)]

\* the longest table
MaxRows == 2

\* the longest loan term of a direct annual_pni call
MaxYears == 3

StressBps == {0, 200, 300}

\* configurations a caller passes for the short-term tables
Configs ==
  {[DEFAULTS EXCEPT !.loan_term_years = Num(2, 1), !.stress_bps = Num(b, 1)] :
     b \in StressBps}
  \cup {[DEFAULTS EXCEPT !.loan_term_years = Num(2, 1),
                         !.purchase_cost_rate = Num(0, 1)]}

AllColumns ==
  {"address", "price", "weekly_rent", "council_rates", "strata_body_corp",
   "insurance", "land_tax", "other_costs", "current_interest_rate", "lvr",
   "loan_term_years"}

\* the demo listing of lines 139-145 (no lvr and no loan_term_years column)
DemoColumns == AllColumns \ {"lvr", "loan_term_years"}

DemoRow ==
  [price |-> Num(900000, 1), weekly_rent |-> Num(720, 1),
   council_rates |-> Num(2200, 1), strata_body_corp |-> Num(0, 1),
   insurance |-> Num(1200, 1), land_tax |-> Num(800, 1),
   other_costs |-> Num(500, 1), current_interest_rate |-> Num(65, 1000),
   lvr |-> Missing, loan_term_years |-> Missing]

DemoTable == [cols |-> DemoColumns, rows |-> <<DemoRow>>]

Listing ==
  [price |-> Num(100000, 1), weekly_rent |-> Num(500, 1),
   council_rates |-> Num(1000, 1), strata_body_corp |-> Num(0, 1),
   insurance |-> Num(500, 1), land_tax |-> Num(0, 1),
   other_costs |-> Num(0, 1), current_interest_rate |-> Num(65, 1000),
   lvr |-> Num(80, 100), loan_term_years |-> Num(2, 1)]

\* the rows of the short-term tables
Rows ==
  << [Listing EXCEPT !.lvr = Num(5, 100), !.loan_term_years = Num(1, 1)],
     [Listing EXCEPT !.lvr = Num(19, 100), !.loan_term_years = Num(1, 1)],
     [Listing EXCEPT !.current_interest_rate = Num(-2, 100)],
     [Listing EXCEPT !.lvr = Num(0, 1), !.other_costs = Missing],
     [Listing EXCEPT !.lvr = Num(1, 1), !.weekly_rent = Num(2500, 1),
                     !.loan_term_years = Num(1, 1)],
     [Listing EXCEPT !.lvr = Missing],
     [Listing EXCEPT !.loan_term_years = Missing],
     [Listing EXCEPT !.current_interest_rate = Num(-2, 100),
                     !.loan_term_years = Num(-1, 1)],
     [Listing EXCEPT !.price = Text] >>

ColumnSets ==
  {AllColumns, AllColumns \ {"address"},
   {"address", "price", "weekly_rent"}}

\* a table of the given columns: cells of other columns are not part of it
Table(cols, rows) ==
  [cols |-> cols,
   rows |-> [i \in 1..Len(rows) |->
              [c \in AllColumns \ {"address"} |->
                 IF c \in cols THEN rows[i][c] ELSE Missing]]]

RECURSIVE Picks(_)
\* the index sequences of length n
Picks(n) ==
  IF n = 0 THEN {<<>>}
  ELSE {Append(p, j) : p \in Picks(n - 1), j \in 1..Len(Rows)}

\* tables of 1..MaxRows different rows, in the order of Rows
Tables ==
  {Table(cols, [i \in 1..Len(p) |-> Rows[p[i]]]) :
     cols \in ColumnSets,
     p \in {q \in UNION {Picks(n) : n \in 1..MaxRows} :
              \A i \in 1..(Len(q) - 1) : q[i] < q[i + 1]}}

\* the calls the model makes: every short-term table under every
\* configuration, and the demo table under DEFAULTS
Inputs == (Tables \X Configs) \cup {<<DemoTable, DEFAULTS>>}

NoResult == [ok |-> FALSE, error |-> "not called"]
NoCall == [scalars |-> "none"]

-----------------------------------------------------------------------------
(* compute_scoc as called by a driver                                      *)

Init ==
  /\ \E in \in Inputs : df = in[1] /\ defaults = in[2]
  /\ result = NoResult
  /\ pni_call = NoCall
  /\ pni_ret = NoCall

\* results = compute_scoc(df_in, DEFAULTS)
ComputeScoc ==
  /\ result = NoResult
  /\ result' = compute_scoc(df, defaults)
  /\ UNCHANGED <<df, defaults, pni_call, pni_ret>>

\* the caller computes the same table again under a higher stress_bps
ComputeScocStressed(bps) ==
  /\ result # NoResult
  /\ bps > ToInt(defaults.stress_bps)
  /\ <<df, [defaults EXCEPT !.stress_bps = Num(bps, 1)]>> \in Inputs
  /\ defaults' = [defaults EXCEPT !.stress_bps = Num(bps, 1)]
  /\ result' = compute_scoc(df, defaults')
  /\ UNCHANGED <<df, pni_call, pni_ret>>

Next ==
  \/ ComputeScoc
  \/ \E bps \in StressBps : ComputeScocStressed(bps)

Spec == Init /\ [][Next]_vars

-----------------------------------------------------------------------------
(* annual_pni called directly                                              *)

PniLoans == {FInt(0), FInt(1000), FInt(720000)}
PniRates == {FRat(-2, 100), FInt(0), FRat(1, 100), FRat(85, 1000), NaN}
PniYears == (-MaxYears)..MaxYears

InitPni ==
  /\ df = DemoTable
  /\ defaults = DEFAULTS
  /\ result = NoResult
  /\ pni_call = NoCall
  /\ pni_ret = NoCall

\* ret = annual_pni(loan_amount, annual_rate, years)
CallAnnualPni(loan_amount, annual_rate, years, scalars) ==
  /\ pni_call = NoCall
  /\ pni_call' = [loan_amount |-> loan_amount, annual_rate |-> annual_rate,
                  years |-> years, scalars |-> scalars]
  /\ pni_ret' = annual_pni(loan_amount, annual_rate, years, scalars)
  /\ UNCHANGED <<df, defaults, result>>

NextPni ==
  \E loan_amount \in PniLoans, annual_rate \in PniRates, years \in PniYears,
     scalars \in {"python", "numpy"} :
    CallAnnualPni(loan_amount, annual_rate, years, scalars)

SpecPni == InitPni /\ [][NextPni]_vars

-----------------------------------------------------------------------------
(* Properties.                                                             *)

\* C1: every output row carries exactly one of the three labels, chosen by
\* first match: BUY exactly when sCoC_percent >= 2.0 and DSCR_stress >= 1.10;
\* otherwise WATCH exactly when sCoC_percent >= 0.0 and DSCR_stress >= 1.0;
\* otherwise AVOID.
C1_SignalPriority ==
  result.ok =>
    \A i \in 1..Len(result.rows) :
      LET r == result.rows[i]
          buy == FGe(r.sCoC_percent, FInt(2)) /\ FGe(r.DSCR_stress, FRat(11, 10))
          watch == FGe(r.sCoC_percent, FInt(0)) /\ FGe(r.DSCR_stress, FInt(1))
      IN /\ r.signal \in {"BUY (resilient)", "WATCH (thin buffer)",
                          "AVOID (negative under stress)"}
         /\ (r.signal = "BUY (resilient)") <=> buy
         /\ (r.signal = "WATCH (thin buffer)") <=> (~buy /\ watch)
         /\ (r.signal = "AVOID (negative under stress)") <=> (~buy /\ ~watch)

\* a table scored with a BUY row (which also passes the WATCH test), a
\* WATCH row and an AVOID row side by side or pairwise
C1_Witness ==
  /\ result.ok
  /\ Len(result.rows) = 2
  /\ result.rows[1].signal = "BUY (resilient)"
  /\ FGe(result.rows[1].DSCR_stress, FInt(1))
  /\ result.rows[2].signal = "WATCH (thin buffer)"

\* C2: for a row with price > 0, lvr in [0,1], equity > 0 and
\* loan_term_years > 0, scoring the same table again with a stress_bps that
\* is not lower gives a sCoC_percent that is not higher, also when the
\* stressed rate goes from <= 0 to > 0.
C2_StressMonotone ==
  [][(/\ result.ok
      /\ result'.ok
      /\ df' = df
      /\ ToInt(defaults'.stress_bps) >= ToInt(defaults.stress_bps))
     => \A i \in 1..Len(df.rows) :
          LET r == result.rows[i]
              term == IF "loan_term_years" \in df.cols
                      THEN df.rows[i].loan_term_years
                      ELSE defaults.loan_term_years
          IN (/\ FLt(FInt(0), r.price)
              /\ FLe(FInt(0), r.loan_amount)
              /\ FLe(r.loan_amount, r.price)
              /\ FLt(FInt(0), r.equity)
              /\ ToInt(term) > 0)
             => FLe(result'.rows[i].sCoC_percent, r.sCoC_percent)]_vars

\* a valid row whose current rate is -2% scored under 300 bps of stress:
\* its stressed rate is positive, and was not under 0 and 200 bps
C2_Witness ==
  /\ result.ok
  /\ defaults.stress_bps = Num(300, 1)
  /\ "current_interest_rate" \in df.cols
  /\ \E i \in 1..Len(df.rows) :
       /\ df.rows[i].current_interest_rate = Num(-2, 100)
       /\ df.rows[i].loan_term_years = Num(2, 1)
       /\ FLt(FInt(0), result.rows[i].stress_rate)
       /\ FLt(FInt(0), result.rows[i].equity)
       /\ FLt(FInt(0), result.rows[i].loan_amount)
       /\ FLt(result.rows[i].sCoC_percent, FInt(0))

\* C3: annual_pni(L, rate, Y) with L >= 0, Y a positive integer and
\* rate <= 0 returns a number that is exactly L / Y (so Y times it is L).
C3_StraightLine ==
  (/\ pni_call # NoCall
   /\ FLe(FInt(0), pni_call.loan_amount)
   /\ pni_call.years > 0
   /\ FLe(pni_call.annual_rate, FInt(0)))
  => /\ ~IsErr(pni_ret)
     /\ pni_ret.k = "fin"
     /\ FEq(FMul(pni_ret, FInt(pni_call.years)), pni_call.loan_amount)

\* a call with a zero rate, where the annuity formula would divide by zero
C3_Witness ==
  /\ pni_call # NoCall
  /\ IsZero(pni_call.annual_rate)
  /\ pni_call.years = 2
  /\ pni_call.loan_amount = FInt(1000)
  /\ pni_ret = FInt(500)

\* C4: a row with equity = 0 or annual_debt_service_stress = 0 never has
\* the result of the division by that zero (an infinity or a NaN) as its
\* sCoC_percent or DSCR_stress together with an ordinary BUY / WATCH / AVOID
\* signal.
C4_SingularityHandled ==
  result.ok =>
    \A i \in 1..Len(result.rows) :
      LET r == result.rows[i]
      IN (IsZero(r.equity) \/ IsZero(r.annual_debt_service_stress))
         => ~(/\ (r.sCoC_percent.k # "fin" \/ r.DSCR_stress.k # "fin")
              /\ r.signal \in {"BUY (resilient)", "WATCH (thin buffer)",
                               "AVOID (negative under stress)"})

\* C5: a call on a table gives what the call gives on the same table with
\* every missing optional cost filled with 0, every missing lvr and
\* loan_term_years filled with the caller's configuration value and every
\* missing current_interest_rate filled with 0.065, whether the cell or the
\* whole column is missing.
C5_MissingFilled ==
  result # NoResult =>
    result =
      compute_scoc(
        [cols |-> (AllColumns \ {"address"}) \cup (df.cols \cap {"address"}),
         rows |-> [i \in 1..Len(df.rows) |->
                    [c \in AllColumns \ {"address"} |->
                       IF df.rows[i][c].k # "nan" THEN df.rows[i][c]
                       ELSE IF c = "lvr" THEN defaults.lvr
                       ELSE IF c = "loan_term_years" THEN defaults.loan_term_years
                       ELSE IF c = "current_interest_rate" THEN Num(65, 1000)
                       ELSE Num(0, 1)]]],
        defaults)

\* C6: annual_pni called with years <= 0 raises: it returns no number,
\* whichever branch the rate selects.
C6_NonPositiveTermFails ==
  (pni_call # NoCall /\ pni_call.years <= 0) => IsErr(pni_ret)

\* C7: a table with a row that scores when given alone is scored: the call
\* does not end in an exception raised because of another row.
C7_RowFailureIsolated ==
  (/\ result # NoResult
   /\ \E i \in 1..Len(df.rows) :
        compute_scoc([cols |-> df.cols, rows |-> <<df.rows[i]>>], defaults).ok)
  => result.ok

\* C8: a completed call returns as many rows as the table has, and each
\* output row is the output row of the call on that row alone (same columns,
\* same configuration), so it does not depend on the other rows.
C8_RowCountAndIndependence ==
  result.ok =>
    /\ Len(result.rows) = Len(df.rows)
    /\ \A i \in 1..Len(df.rows) :
         compute_scoc([cols |-> df.cols, rows |-> <<df.rows[i]>>], defaults)
           = [ok |-> TRUE, rows |-> <<result.rows[i]>>]

\* a scored table of two different rows, one of them without a
\* cash-on-cash return (its lvr cell is missing)
C8_Witness ==
  /\ result.ok
  /\ Len(df.rows) = 2
  /\ Len(result.rows) = 2
  /\ df.rows[1] # df.rows[2]
  /\ result.rows[1].sCoC_percent.k = "fin"
  /\ result.rows[2].sCoC_percent.k = "nan"

\* C9: under DEFAULTS the demo row derives operating_costs = 15572,
\* NOI = 18988, loan_amount = 720000, equity = 225000, stress_rate = 0.085,
\* a negative sCoC_percent and the signal AVOID.
C9_DemoRow ==
  (df = DemoTable /\ defaults = DEFAULTS /\ result # NoResult) =>
    /\ result.ok
    /\ Len(result.rows) = 1
    /\ FEq(compute_frame(df, defaults).rows[1].operating_costs, FInt(15572))
    /\ FEq(result.rows[1].NOI, FInt(18988))
    /\ FEq(result.rows[1].loan_amount, FInt(720000))
    /\ FEq(result.rows[1].equity, FInt(225000))
    /\ FEq(result.rows[1].stress_rate, FRat(85, 1000))
    /\ FLt(result.rows[1].sCoC_percent, FInt(0))
    /\ result.rows[1].signal = "AVOID (negative under stress)"

\* the demo table scored under DEFAULTS
C9_Witness ==
  /\ df = DemoTable
  /\ defaults = DEFAULTS
  /\ result.ok
  /\ result.rows[1].price = FInt(900000)
  /\ result.rows[1].annual_debt_service_stress.k = "fin"

\* C10: for a row with equity > 0 and annual_debt_service_stress > 0,
\* sCoC_percent >= 0 exactly when DSCR_stress >= 1.0; such a row with
\* DSCR_stress >= 1.0 is not AVOID and such a row with DSCR_stress < 1.0 is
\* AVOID.
C10_CashflowSignMatchesCoverage ==
  result.ok =>
    \A i \in 1..Len(result.rows) :
      LET r == result.rows[i]
      IN (FLt(FInt(0), r.equity) /\ FLt(FInt(0), r.annual_debt_service_stress))
         => /\ FGe(r.sCoC_percent, FInt(0)) <=> FGe(r.DSCR_stress, FInt(1))
            /\ FGe(r.DSCR_stress, FInt(1))
                 => r.signal # "AVOID (negative under stress)"
            /\ FLt(r.DSCR_stress, FInt(1))
                 => r.signal = "AVOID (negative under stress)"

\* a table with a covered row (DSCR_stress >= 1) and an uncovered one, both
\* with positive equity and debt service
C10_Witness ==
  /\ result.ok
  /\ \E i, j \in 1..Len(result.rows) :
       /\ FLt(FInt(0), result.rows[i].equity)
       /\ FLt(FInt(0), result.rows[i].annual_debt_service_stress)
       /\ FGe(result.rows[i].DSCR_stress, FInt(1))
       /\ FLt(FInt(0), result.rows[j].equity)
       /\ FLt(FInt(0), result.rows[j].annual_debt_service_stress)
       /\ FLt(result.rows[j].DSCR_stress, FInt(1))

====
